---- MODULE Spec2Model ----
(***************************************************************************)
(* The DataMap execution engine of signalwire_agents/cli/test_swaig.py:    *)
(* simple_template_expand and execute_datamap_function.                    *)
(*                                                                         *)
(* Python values are tagged tuples, so that values of different types can  *)
(* be compared:                                                            *)
(*   <<"str", s>>  <<"int", n>>  <<"bool", b>>  <<"null">>                 *)
(*   <<"list", <<v1, ..., vn>>>>                                           *)
(*   <<"dict", << <<k1, v1>>, ..., <<kn, vn>> >>>>   (insertion order)     *)
(* Python strings are TLA+ strings; Len, \o and SubSeq act on their        *)
(* characters.                                                             *)
(***************************************************************************)
EXTENDS Integers, Sequences, FiniteSets, TLC

----------------------------------------------------------------------------
(* Python values *)

S(s) == <<"str", s>>
I(n) == <<"int", n>>
B(b) == <<"bool", b>>
None == <<"null">>
L(elems) == <<"list", elems>>
D(pairs) == <<"dict", pairs>>

Tag(v) == v[1]
IsStr(v) == Tag(v) = "str"
IsList(v) == Tag(v) = "list"
IsDict(v) == Tag(v) = "dict"

\* The keys of a dict, in insertion order.
Keys(d) == [n \in 1..Len(d[2]) |-> d[2][n][1]]

\* `k in d` for a dict d.
HasKey(d, k) == \E n \in 1..Len(d[2]) : d[2][n][1] = k

\* d[k] for a dict d that has the key k.
Get(d, k) == d[2][CHOOSE n \in 1..Len(d[2]) : d[2][n][1] = k][2]

\* d.get(k, default)
GetOr(d, k, default) == IF HasKey(d, k) THEN Get(d, k) ELSE default

\* d[k] = v: an existing key keeps its place, a new key goes last.
Put(d, k, v) ==
    IF HasKey(d, k)
    THEN D([n \in 1..Len(d[2]) |-> IF d[2][n][1] = k THEN <<k, v>> ELSE d[2][n]])
    ELSE D(Append(d[2], <<k, v>>))

RECURSIVE UpdateFrom(_, _, _)
UpdateFrom(d, pairs, n) ==
    IF n > Len(pairs) THEN d
    ELSE UpdateFrom(Put(d, pairs[n][1], pairs[n][2]), pairs, n + 1)

\* d.update(other)
Update(d, other) == UpdateFrom(d, other[2], 1)

\* bool(v): Python truthiness.
Truthy(v) ==
    CASE Tag(v) = "str"  -> v[2] # ""
      [] Tag(v) = "int"  -> v[2] # 0
      [] Tag(v) = "bool" -> v[2]
      [] Tag(v) = "null" -> FALSE
      [] Tag(v) = "list" -> Len(v[2]) > 0
      [] Tag(v) = "dict" -> Len(v[2]) > 0

----------------------------------------------------------------------------
(* Python strings *)

Char(s, p) == SubSeq(s, p, p)

\* s[p:] with p counted from 1
From(s, p) == SubSeq(s, p, Len(s))

StartsWith(s, pre) == Len(s) >= Len(pre) /\ SubSeq(s, 1, Len(pre)) = pre
EndsWith(s, suf) == Len(s) >= Len(suf) /\ SubSeq(s, Len(s) - Len(suf) + 1, Len(s)) = suf

\* The least position >= p where sub occurs in s, 0 when there is none.
RECURSIVE Find(_, _, _)
Find(s, sub, p) ==
    IF p + Len(sub) - 1 > Len(s) THEN 0
    ELSE IF SubSeq(s, p, p + Len(sub) - 1) = sub THEN p
    ELSE Find(s, sub, p + 1)

\* `sub in s` for strings
Contains(s, sub) == Find(s, sub, 1) # 0

\* s.replace(old, new) for a non-empty old: every occurrence, left to right.
RECURSIVE Replace(_, _, _)
Replace(s, old, new) ==
    LET p == Find(s, old, 1)
    IN IF p = 0 THEN s
       ELSE SubSeq(s, 1, p - 1) \o new \o Replace(From(s, p + Len(old)), old, new)

Digit(d) == Char("0123456789", d + 1)

RECURSIVE NatStr(_)
NatStr(n) == IF n < 10 THEN Digit(n) ELSE NatStr(n \div 10) \o Digit(n % 10)

\* str(n) for an int
IntStr(n) == IF n < 0 THEN "-" \o NatStr(-n) ELSE NatStr(n)

\* repr(v) and str(v).  They differ on strings only; the strings of the model
\* hold no quote and no backslash, so repr adds single quotes and no escape.
RECURSIVE PyRepr(_)
RECURSIVE ReprItems(_, _)
RECURSIVE ReprPairs(_, _)
ReprItems(elems, n) ==
    IF n > Len(elems) THEN ""
    ELSE (IF n > 1 THEN ", " ELSE "") \o PyRepr(elems[n]) \o ReprItems(elems, n + 1)
ReprPairs(pairs, n) ==
    IF n > Len(pairs) THEN ""
    ELSE (IF n > 1 THEN ", " ELSE "") \o "'" \o pairs[n][1] \o "': "
         \o PyRepr(pairs[n][2]) \o ReprPairs(pairs, n + 1)
PyRepr(v) ==
    CASE Tag(v) = "str"  -> "'" \o v[2] \o "'"
      [] Tag(v) = "int"  -> IntStr(v[2])
      [] Tag(v) = "bool" -> IF v[2] THEN "True" ELSE "False"
      [] Tag(v) = "null" -> "None"
      [] Tag(v) = "list" -> "[" \o ReprItems(v[2], 1) \o "]"
      [] Tag(v) = "dict" -> "{" \o ReprPairs(v[2], 1) \o "}"

PyStr(v) == IF IsStr(v) THEN v[2] ELSE PyRepr(v)

----------------------------------------------------------------------------
(* simple_template_expand *)

\* re.finditer(r'\$\{([^}]+)\}', s) for sigil "$" and r'%\{([^}]+)\}' for
\* sigil "%": the non-overlapping matches at or after position p, left to
\* right, each with the matched text and its group 1.
\* A variant of FindIterFrom for the patterns with [^}]* in place of [^}]+,
\* which match a placeholder without a path.
RECURSIVE FindIterFrom_star(_, _, _)
FindIterFrom_star(sigil, s, p) ==
    LET q == Find(s, sigil \o "{", p)
        c == Find(s, "}", q + 2)
    IN IF q = 0 \/ c = 0 THEN <<>>
       ELSE <<[whole |-> SubSeq(s, q, c), var_path |-> SubSeq(s, q + 2, c - 1)]>>
            \o FindIterFrom_star(sigil, s, c + 1)

RECURSIVE FindIterFrom(_, _, _)
FindIterFrom(sigil, s, p) ==
    LET q == Find(s, sigil \o "{", p)
        c == Find(s, "}", q + 2)
    IN IF q = 0 \/ c = 0 THEN <<>>
       ELSE IF c = q + 2 THEN FindIterFrom(sigil, s, q + 1)
       ELSE <<[whole |-> SubSeq(s, q, c), var_path |-> SubSeq(s, q + 2, c - 1)]>>
            \o FindIterFrom(sigil, s, c + 1)

FindIter(sigil, s) == FindIterFrom(sigil, s, 1)

\* f"<MISSING:{var_path}>"
Missing(var_path) == S("<MISSING:" \o var_path \o ">")

\* s.strip(), for the blank as the only whitespace
RECURSIVE Strip(_)
Strip(s) ==
    IF StartsWith(s, " ") THEN Strip(From(s, 2))
    ELSE IF EndsWith(s, " ") THEN Strip(SubSeq(s, 1, Len(s) - 1))
    ELSE s

IsDigit(c) == c \in {"0", "1", "2", "3", "4", "5", "6", "7", "8", "9"}
DigitVal(c) == CHOOSE d \in 0..9 : Digit(d) = c

\* The value of a string of digits and underscores that int() accepts.
RECURSIVE DigitsVal(_, _, _)
DigitsVal(s, p, acc) ==
    IF p > Len(s) THEN acc
    ELSE IF Char(s, p) = "_" THEN DigitsVal(s, p + 1, acc)
    ELSE DigitsVal(s, p + 1, 10 * acc + DigitVal(Char(s, p)))

\* int() accepts digits with single underscores between them.
DigitsOk(s) ==
    /\ Len(s) > 0
    /\ IsDigit(Char(s, 1)) /\ IsDigit(Char(s, Len(s)))
    /\ \A p \in 1..Len(s) : IsDigit(Char(s, p)) \/ Char(s, p) = "_"
    /\ ~Contains(s, "__")

\* A variant of ParseInt that reads what is no integer as 0.
ParseInt_lenient(s) ==
    LET t == Strip(s)
        signed == StartsWith(t, "-") \/ StartsWith(t, "+")
        digits == IF signed THEN From(t, 2) ELSE t
    IN IF ~DigitsOk(digits) THEN [ok |-> TRUE, n |-> 0]
       ELSE [ok |-> TRUE,
             n |-> IF StartsWith(t, "-") THEN 0 - DigitsVal(digits, 1, 0)
                   ELSE DigitsVal(digits, 1, 0)]

\* int(s): ok is FALSE where Python raises ValueError.
ParseInt(s) ==
    LET t == Strip(s)
        signed == StartsWith(t, "-") \/ StartsWith(t, "+")
        digits == IF signed THEN From(t, 2) ELSE t
    IN IF ~DigitsOk(digits) THEN [ok |-> FALSE, n |-> 0]
       ELSE [ok |-> TRUE,
             n |-> IF StartsWith(t, "-") THEN 0 - DigitsVal(digits, 1, 0)
                   ELSE DigitsVal(digits, 1, 0)]

\* The while loop that splits a path with array indexing into parts, from
\* position i (counted from 1) with current_part and parts as they stand.
RECURSIVE SplitIndexed(_, _, _, _)
SplitIndexed(var_path, i, current_part, parts) ==
    LET flushed == IF current_part # "" THEN Append(parts, current_part) ELSE parts
        j == Find(var_path, "]", i + 1)
        skip == IF j + 1 <= Len(var_path) /\ Char(var_path, j + 1) = "."
                THEN j + 2 ELSE j + 1
    IN IF i > Len(var_path) THEN flushed
       ELSE IF Char(var_path, i) = "["
       THEN IF j # 0
            THEN SplitIndexed(var_path, skip, "",
                              Append(flushed, "[" \o SubSeq(var_path, i + 1, j - 1) \o "]"))
            ELSE SplitIndexed(var_path, i + 1, "[", flushed)
       ELSE IF Char(var_path, i) = "."
       THEN SplitIndexed(var_path, i + 1, "", flushed)
       ELSE SplitIndexed(var_path, i + 1, current_part \o Char(var_path, i), parts)

\* A variant of WalkIndexed in which a negative index counts from the end of
\* the list, as value[index] does.
RECURSIVE WalkIndexed_negative(_, _, _, _)
WalkIndexed_negative(value, parts, n, var_path) ==
    LET part == parts[n]
        index == ParseInt(SubSeq(part, 2, Len(part) - 1))
        at == IF index.n < 0 THEN Len(value[2]) + index.n ELSE index.n
    IN IF n > Len(parts) THEN value
       ELSE IF StartsWith(part, "[") /\ EndsWith(part, "]")
       THEN IF ~index.ok THEN Missing(var_path)
            ELSE IF IsList(value) /\ 0 <= at /\ at < Len(value[2])
            THEN WalkIndexed_negative(value[2][at + 1], parts, n + 1, var_path)
            ELSE Missing(var_path)
       ELSE IF IsDict(value) /\ HasKey(value, part)
       THEN WalkIndexed_negative(Get(value, part), parts, n + 1, var_path)
       ELSE Missing(var_path)

\* Navigation through the data structure, parts n.. of a path with indexing.
RECURSIVE WalkIndexed(_, _, _, _)
WalkIndexed(value, parts, n, var_path) ==
    LET part == parts[n]
        index == ParseInt(SubSeq(part, 2, Len(part) - 1))
    IN IF n > Len(parts) THEN value
       ELSE IF StartsWith(part, "[") /\ EndsWith(part, "]")
       THEN IF ~index.ok THEN Missing(var_path)
            ELSE IF IsList(value) /\ 0 <= index.n /\ index.n < Len(value[2])
            THEN WalkIndexed(value[2][index.n + 1], parts, n + 1, var_path)
            ELSE Missing(var_path)
       ELSE IF IsDict(value) /\ HasKey(value, part)
       THEN WalkIndexed(Get(value, part), parts, n + 1, var_path)
       ELSE Missing(var_path)

\* s.split('.') from position p on
RECURSIVE SplitDots(_, _)
SplitDots(s, p) ==
    LET q == Find(s, ".", p)
    IN IF q = 0 THEN <<From(s, p)>>
       ELSE <<SubSeq(s, p, q - 1)>> \o SplitDots(s, q + 1)

\* Regular nested object access, parts n.. of a path without indexing.
RECURSIVE WalkDotted(_, _, _, _)
WalkDotted(value, path_parts, n, var_path) ==
    IF n > Len(path_parts) THEN value
    ELSE IF IsDict(value) /\ HasKey(value, path_parts[n])
    THEN WalkDotted(Get(value, path_parts[n]), path_parts, n + 1, var_path)
    ELSE Missing(var_path)

\* The value substituted for one reference.
Resolve(var_path, data) ==
    IF Contains(var_path, "[") /\ Contains(var_path, "]")
    THEN WalkIndexed(data, SplitIndexed(var_path, 1, "", <<>>), 1, var_path)
    ELSE WalkDotted(data, SplitDots(var_path, 1), 1, var_path)

\* The inner loop: for each match, result = result.replace(match.group(0), str(value)).
RECURSIVE ReplaceMatches(_, _, _, _)
ReplaceMatches(result, matches, n, data) ==
    IF n > Len(matches) THEN result
    ELSE ReplaceMatches(
             Replace(result, matches[n].whole, PyStr(Resolve(matches[n].var_path, data))),
             matches, n + 1, data)

\* One pass of the outer loop: finditer scans result as it is when the pass begins.
ExpandPattern(sigil, result, data) ==
    ReplaceMatches(result, FindIter(sigil, result), 1, data)

simple_template_expand(template, data) ==
    IF template = "" THEN ""
    ELSE ExpandPattern("%", ExpandPattern("$", template, data), data)

----------------------------------------------------------------------------
(* execute_datamap_function: the pure parts *)

\* datamap_config.get("data_map", datamap_config)
ActualDatamap(config) == GetOr(config, "data_map", config)

\* A variant of InitialContext without the arguments at the top level.
InitialContext_nested(arguments) == D(<< <<"args", arguments>> >>)

\* context = {"args": args}; context.update(args)
InitialContext(arguments) == Update(D(<< <<"args", arguments>> >>), arguments)

\* The index of the first rule that has a pattern and an output and whose
\* pattern occurs in str(args); 0 when no rule matches.
\* A variant of FirstMatch in which the last matching rule wins.
RECURSIVE FirstMatch_last(_, _, _)
FirstMatch_last(expressions, arguments, n) ==
    IF n > Len(expressions) THEN 0
    ELSE IF FirstMatch_last(expressions, arguments, n + 1) # 0
    THEN FirstMatch_last(expressions, arguments, n + 1)
    ELSE IF /\ HasKey(expressions[n], "pattern") /\ HasKey(expressions[n], "output")
            /\ Contains(PyStr(arguments), Get(expressions[n], "pattern")[2])
    THEN n
    ELSE 0

RECURSIVE FirstMatch(_, _, _)
FirstMatch(expressions, arguments, n) ==
    IF n > Len(expressions) THEN 0
    ELSE IF /\ HasKey(expressions[n], "pattern") /\ HasKey(expressions[n], "output")
            /\ Contains(PyStr(arguments), Get(expressions[n], "pattern")[2])
    THEN n
    ELSE FirstMatch(expressions, arguments, n + 1)

\* The result of a matched rule: simple_template_expand(str(expr["output"]), context)
ExpressionResult(expr, ctx) == S(simple_template_expand(PyStr(Get(expr, "output")), ctx))

\* s.upper() on ASCII letters
RECURSIVE Upper(_)
Upper(s) ==
    LET lower == "abcdefghijklmnopqrstuvwxyz"
        p == Find(lower, Char(s, 1), 1)
    IN IF s = "" THEN ""
       ELSE (IF p = 0 THEN Char(s, 1) ELSE Char("ABCDEFGHIJKLMNOPQRSTUVWXYZ", p))
            \o Upper(From(s, 2))

\* json.dumps(v), for strings without quote or backslash
RECURSIVE JsonDumps(_)
RECURSIVE DumpItems(_, _)
RECURSIVE DumpPairs(_, _)
DumpItems(elems, n) ==
    IF n > Len(elems) THEN ""
    ELSE (IF n > 1 THEN ", " ELSE "") \o JsonDumps(elems[n]) \o DumpItems(elems, n + 1)
DumpPairs(pairs, n) ==
    IF n > Len(pairs) THEN ""
    ELSE (IF n > 1 THEN ", " ELSE "") \o "\"" \o pairs[n][1] \o "\": "
         \o JsonDumps(pairs[n][2]) \o DumpPairs(pairs, n + 1)
JsonDumps(v) ==
    CASE Tag(v) = "str"  -> "\"" \o v[2] \o "\""
      [] Tag(v) = "int"  -> IntStr(v[2])
      [] Tag(v) = "bool" -> IF v[2] THEN "true" ELSE "false"
      [] Tag(v) = "null" -> "null"
      [] Tag(v) = "list" -> "[" \o DumpItems(v[2], 1) \o "]"
      [] Tag(v) = "dict" -> "{" \o DumpPairs(v[2], 1) \o "}"

\* A variant of ExpandValues that leaves out the last key.
ExpandValues_short(d, ctx) ==
    D([n \in 1..(Len(d[2]) - 1) |->
         <<d[2][n][1], S(simple_template_expand(PyStr(d[2][n][2]), ctx))>>])

\* {key: simple_template_expand(str(value), ctx) for key, value in d.items()}
ExpandValues(d, ctx) ==
    D([n \in 1..Len(d[2]) |->
         <<d[2][n][1], S(simple_template_expand(PyStr(d[2][n][2]), ctx))>>])

\* A variant of RequestData that looks at body before params.
RequestData_body_first(webhook, ctx) ==
    LET first == IF HasKey(webhook, "body") THEN "body"
                 ELSE IF HasKey(webhook, "params") THEN "params"
                 ELSE IF HasKey(webhook, "data") THEN "data" ELSE ""
        payload == Get(webhook, first)
    IN IF first = "" THEN [raised |-> FALSE, data |-> None]
       ELSE IF IsStr(payload) /\ first # "params"
       THEN [raised |-> FALSE, data |-> S(simple_template_expand(payload[2], ctx))]
       ELSE IF first = "data"
       THEN [raised |-> FALSE, data |-> S(JsonDumps(payload))]
       ELSE IF IsDict(payload)
       THEN [raised |-> FALSE, data |-> S(JsonDumps(ExpandValues(payload, ctx)))]
       ELSE [raised |-> TRUE, data |-> None]

\* The request payload of a POST, PUT or PATCH webhook.  raised: .items() on a
\* value that is no dict raises AttributeError.
RequestData(webhook, ctx) ==
    IF HasKey(webhook, "params")
    THEN IF IsDict(Get(webhook, "params"))
         THEN [raised |-> FALSE,
               data |-> S(JsonDumps(ExpandValues(Get(webhook, "params"), ctx)))]
         ELSE [raised |-> TRUE, data |-> None]
    ELSE IF HasKey(webhook, "body")
    THEN IF IsStr(Get(webhook, "body"))
         THEN [raised |-> FALSE,
               data |-> S(simple_template_expand(Get(webhook, "body")[2], ctx))]
         ELSE IF IsDict(Get(webhook, "body"))
         THEN [raised |-> FALSE,
               data |-> S(JsonDumps(ExpandValues(Get(webhook, "body"), ctx)))]
         ELSE [raised |-> TRUE, data |-> None]
    ELSE IF HasKey(webhook, "data")
    THEN IF IsStr(Get(webhook, "data"))
         THEN [raised |-> FALSE,
               data |-> S(simple_template_expand(Get(webhook, "data")[2], ctx))]
         ELSE [raised |-> FALSE, data |-> S(JsonDumps(Get(webhook, "data")))]
    ELSE [raised |-> FALSE, data |-> None]

\* What the loop body does before the try: the expanded url and headers, the
\* method and the request data.
PrepareRequest(webhook, ctx) ==
    LET method == Upper(GetOr(webhook, "method", S("POST"))[2])
        payload == IF method \in {"POST", "PUT", "PATCH"}
                   THEN RequestData(webhook, ctx)
                   ELSE [raised |-> FALSE, data |-> None]
    IN [raised  |-> payload.raised,
        method  |-> method,
        url     |-> simple_template_expand(GetOr(webhook, "url", S(""))[2], ctx),
        headers |-> ExpandValues(GetOr(webhook, "headers", D(<<>>)), ctx),
        data    |-> payload.data]

\* The methods for which a request is sent; any other raises ValueError.
SupportedMethods == {"GET", "POST", "PUT", "PATCH", "DELETE"}

\* The request as the transport receives it: requests.get and requests.delete
\* are given no data.
HttpCall(n, req) ==
    [webhook |-> n, method |-> req.method, url |-> req.url, headers |-> req.headers,
     data |-> IF req.method \in {"POST", "PUT", "PATCH"} THEN req.data ELSE None]

\* response.json(), or the payload built when it raises json.JSONDecodeError.
\* A response is <<"response", status_code, body>>; its body is
\* <<"json", value>> for a JSON document or <<"text", raw>> for any other text.
ParseResponse(response) ==
    IF response[3][1] = "json" THEN response[3][2]
    ELSE D(<< <<"text", S(response[3][2])>>, <<"status_code", I(response[2])>>,
              <<"parse_error", B(TRUE)>>, <<"raw_response", S(response[3][2])>> >>)

\* A variant of StatusFailed with AND in place of OR.
StatusFailed_and(status_code) == status_code < 200 /\ status_code > 299

\* 1. response.status_code < 200 or response.status_code > 299
StatusFailed(status_code) == status_code < 200 \/ status_code > 299

\* `error_key in response_data and response_data[error_key]`:
\* "TypeError" where Python raises it, else "truthy" or "falsy".
ErrorKeyCheck(error_key, response_data) ==
    CASE IsDict(response_data) ->
           IF HasKey(response_data, error_key) /\ Truthy(Get(response_data, error_key))
           THEN "truthy" ELSE "falsy"
      [] IsList(response_data) ->
           IF \E n \in 1..Len(response_data[2]) : response_data[2][n] = S(error_key)
           THEN "TypeError" ELSE "falsy"
      [] IsStr(response_data) ->
           IF Contains(response_data[2], error_key) THEN "TypeError" ELSE "falsy"
      [] OTHER -> "TypeError"

\* A loop over error keys n.., which breaks at the first truthy one.
RECURSIVE CheckKeys(_, _, _)
CheckKeys(keys, response_data, n) ==
    IF n > Len(keys) THEN "falsy"
    ELSE IF ErrorKeyCheck(keys[n], response_data) = "falsy"
    THEN CheckKeys(keys, response_data, n + 1)
    ELSE ErrorKeyCheck(keys[n], response_data)

\* A variant of ExplicitErrorKeys without parse_error.
ExplicitErrorKeys_protocol == <<"protocol_error">>

\* 2. explicit_error_keys
ExplicitErrorKeys == <<"parse_error", "protocol_error">>

\* A variant of CustomErrorKeys that takes a single string for no list.
CustomErrorKeys_lists(webhook) ==
    LET error_keys == Get(webhook, "error_keys")
    IN IF ~HasKey(webhook, "error_keys") THEN <<>>
       ELSE IF IsList(error_keys) THEN [n \in 1..Len(error_keys[2]) |-> error_keys[2][n][2]]
       ELSE <<>>

\* 3. webhook["error_keys"]: a single string becomes a list, anything that is
\* no list becomes the empty list.
CustomErrorKeys(webhook) ==
    LET error_keys == Get(webhook, "error_keys")
    IN IF ~HasKey(webhook, "error_keys") THEN <<>>
       ELSE IF IsStr(error_keys) THEN <<error_keys[2]>>
       ELSE IF IsList(error_keys) THEN [n \in 1..Len(error_keys[2]) |-> error_keys[2][n][2]]
       ELSE <<>>

\* The three checks after a response was parsed: "failed", "ok", or
\* "TypeError" when a check raises.
Classify(webhook, status_code, response_data) ==
    IF StatusFailed(status_code) THEN "failed"
    ELSE IF CheckKeys(ExplicitErrorKeys, response_data, 1) # "falsy"
    THEN (IF CheckKeys(ExplicitErrorKeys, response_data, 1) = "truthy"
          THEN "failed" ELSE "TypeError")
    ELSE IF CheckKeys(CustomErrorKeys(webhook), response_data, 1) = "truthy" THEN "failed"
    ELSE IF CheckKeys(CustomErrorKeys(webhook), response_data, 1) = "TypeError"
    THEN "TypeError"
    ELSE "ok"

\* A variant of ExceptionOutcome that builds the error response and leaves
\* webhook_failed as it was set before the try.
ExceptionOutcome_unset(message) ==
    [webhook_failed |-> FALSE,
     response_data  |-> D(<< <<"protocol_error", B(TRUE)>>, <<"error", S(message)>> >>)]

\* except Exception as e: the webhook failed, with the error response
\* {"protocol_error": True, "error": str(e)}.
ExceptionOutcome(message) ==
    [webhook_failed |-> TRUE,
     response_data  |-> D(<< <<"protocol_error", B(TRUE)>>, <<"error", S(message)>> >>)]

\* The try block of one webhook: the request is sent if the method is
\* supported, and the transport answers with `behaviour`, a response or
\* <<"exception", message>>.
TryWebhook(webhook, req, behaviour) ==
    LET response_data == ParseResponse(behaviour)
        class == Classify(webhook, behaviour[2], response_data)
    IN IF req.method \notin SupportedMethods
       THEN ExceptionOutcome("Unsupported HTTP method: " \o req.method)
       ELSE IF behaviour[1] = "exception" THEN ExceptionOutcome(behaviour[2])
       ELSE IF class = "TypeError" THEN ExceptionOutcome("TypeError")
       ELSE [webhook_failed |-> class = "failed", response_data |-> response_data]

\* webhook_context = context.copy(), then the response under "array" when it
\* is a list and under "response" otherwise.
MergeResponse(ctx, response_data) ==
    IF IsList(response_data) THEN Put(ctx, "array", response_data)
    ELSE Put(ctx, "response", response_data)

\* foreach_config.get("max", 100)
DefaultMax == 100

\* input_data[:max_items]
SlicePrefix(input_data, max_items) ==
    LET n == Len(input_data)
        stop == IF max_items >= 0
                THEN (IF max_items < n THEN max_items ELSE n)
                ELSE (IF n + max_items > 0 THEN n + max_items ELSE 0)
    IN SubSeq(input_data, 1, stop)

\* A variant of ForeachItem that expands the append template against the item
\* itself, not under "this".
ForeachItem_bare(item, append_template) ==
    simple_template_expand(
        append_template, IF IsDict(item) THEN item ELSE D(<< <<"value", item>> >>))

\* The expansion of the append template for one item.
ForeachItem(item, append_template) ==
    simple_template_expand(
        append_template,
        D(<< <<"this", IF IsDict(item) THEN item ELSE D(<< <<"value", item>> >>)>> >>))

\* "".join(result_parts), items n..
RECURSIVE JoinItems(_, _, _)
JoinItems(items, append_template, n) ==
    IF n > Len(items) THEN ""
    ELSE ForeachItem(items[n], append_template) \o JoinItems(items, append_template, n + 1)

\* `input_key in response_data and isinstance(response_data[input_key], list)`:
\* "TypeError" where Python raises it, else "list" or "no".
InputCheck(input_key, response_data) ==
    CASE IsDict(response_data) ->
           IF HasKey(response_data, input_key) /\ IsList(Get(response_data, input_key))
           THEN "list" ELSE "no"
      [] IsList(response_data) ->
           IF \E n \in 1..Len(response_data[2]) : response_data[2][n] = S(input_key)
           THEN "TypeError" ELSE "no"
      [] IsStr(response_data) ->
           IF Contains(response_data[2], input_key) THEN "TypeError" ELSE "no"
      [] OTHER -> "TypeError"

\* A variant of Foreach that leaves the last item in the webhook context,
\* under "this".
Foreach_leaks(webhook, response_data, ctx) ==
    LET foreach_config == Get(webhook, "foreach")
        input_key == GetOr(foreach_config, "input_key", S("data"))[2]
        output_key == GetOr(foreach_config, "output_key", S("result"))[2]
        max_items == GetOr(foreach_config, "max", I(DefaultMax))[2]
        append_template == GetOr(foreach_config, "append", S("${this.value}"))[2]
        input_data == Get(response_data, input_key)
        items == SlicePrefix(input_data[2], max_items)
    IN IF ~HasKey(webhook, "foreach") THEN [raised |-> FALSE, context |-> ctx]
       ELSE IF InputCheck(input_key, response_data) = "TypeError"
       THEN [raised |-> TRUE, context |-> ctx]
       ELSE IF InputCheck(input_key, response_data) = "list" /\ Truthy(input_data)
       THEN [raised |-> FALSE,
             context |-> Put(Put(ctx, output_key, S(JoinItems(items, append_template, 1))),
                             "this", IF items = <<>> THEN None ELSE items[Len(items)])]
       ELSE [raised |-> FALSE, context |-> ctx]

\* Step 3, the foreach of a successful webhook: the webhook context after it,
\* or raised when the look-up of the input data raises TypeError.
Foreach(webhook, response_data, ctx) ==
    LET foreach_config == Get(webhook, "foreach")
        input_key == GetOr(foreach_config, "input_key", S("data"))[2]
        output_key == GetOr(foreach_config, "output_key", S("result"))[2]
        max_items == GetOr(foreach_config, "max", I(DefaultMax))[2]
        append_template == GetOr(foreach_config, "append", S("${this.value}"))[2]
        input_data == Get(response_data, input_key)
    IN IF ~HasKey(webhook, "foreach") THEN [raised |-> FALSE, context |-> ctx]
       ELSE IF InputCheck(input_key, response_data) = "TypeError"
       THEN [raised |-> TRUE, context |-> ctx]
       ELSE IF InputCheck(input_key, response_data) = "list" /\ Truthy(input_data)
       THEN [raised |-> FALSE,
             context |-> Put(ctx, output_key,
                             S(JoinItems(SlicePrefix(input_data[2], max_items),
                                         append_template, 1)))]
       ELSE [raised |-> FALSE, context |-> ctx]

\* A variant of WebhookResult that returns the webhook context when the
\* webhook has no output.
WebhookResult_context(webhook, response_data, ctx) ==
    LET webhook_output == Get(webhook, "output")
    IN IF ~HasKey(webhook, "output") THEN ctx
       ELSE IF IsDict(webhook_output) THEN ExpandValues(webhook_output, ctx)
       ELSE S(simple_template_expand(PyStr(webhook_output), ctx))

\* Step 4, the result of a successful webhook: its output rendered against
\* the webhook context, or the response data when it has no output.
WebhookResult(webhook, response_data, ctx) ==
    LET webhook_output == Get(webhook, "output")
    IN IF ~HasKey(webhook, "output") THEN response_data
       ELSE IF IsDict(webhook_output) THEN ExpandValues(webhook_output, ctx)
       ELSE S(simple_template_expand(PyStr(webhook_output), ctx))

\* A variant of ContextAfterFailure in which the failed webhook's response
\* stays in the context.
ContextAfterFailure_keeps(ctx, response_data) ==
    IF IsList(response_data) THEN Put(ctx, "array", response_data)
    ELSE Put(ctx, "response", response_data)

\* The else branch of `if not webhook_failed`: the loop continues, and nothing
\* of the failed webhook is kept; the next webhook and the fallback stage see
\* the context built at the start.
ContextAfterFailure(ctx, response_data) == ctx

\* Step 5, the fallback: the DataMap-level output rendered against the context.
FallbackResult(datamap_output, ctx) ==
    IF IsDict(datamap_output) THEN ExpandValues(datamap_output, ctx)
    ELSE S(simple_template_expand(PyStr(datamap_output), ctx))

\* A variant of GenericErrorResult without the status.
GenericErrorResult_bare ==
    D(<< <<"error", S("All webhooks failed and no fallback output defined")>> >>)

\* error_result
GenericErrorResult ==
    D(<< <<"error", S("All webhooks failed and no fallback output defined")>>,
         <<"status", S("failed")>> >>)

----------------------------------------------------------------------------
(* The inputs: configurations, arguments and transport behaviours *)

\* The most webhooks a configuration of the model lists.
MaxWebhooks == 2

SearchWebhook ==
    D(<< <<"url", S("http://a/${q}")>>, <<"method", S("get")>>,
         <<"headers", D(<< <<"X-Q", S("%{args.q}")>> >>)>>,
         <<"foreach", D(<< <<"input_key", S("items")>>, <<"output_key", S("summary")>>,
                           <<"max", I(2)>>, <<"append", S("${this.t};")>> >>)>>,
         <<"error_keys", S("error")>>,
         <<"output", S("A:${response.v} ${summary}")>> >>)

PostWebhook ==
    D(<< <<"url", S("http://b")>>, <<"method", S("POST")>>,
         <<"params", D(<< <<"q", S("${q}")>> >>)>>,
         <<"foreach", D(<<>>)>>,
         <<"error_keys", L(<<S("fault"), S("error")>>)>>,
         <<"output", D(<< <<"response", S("B:${array[0]} ${result}")>>,
                          <<"count", I(2)>> >>)>> >>)

HeadWebhook ==
    D(<< <<"url", S("http://c")>>, <<"method", S("HEAD")>>, <<"output", S("C")>> >>)

PlainWebhook == D(<< <<"url", S("http://d")>> >>)

TitlesWebhook ==
    D(<< <<"url", S("https://x/search?q=${query}")>>, <<"method", S("GET")>>,
         <<"foreach", D(<< <<"input_key", S("results")>>, <<"output_key", S("summary")>>,
                           <<"append", S("${this.title}; ")>> >>)>>,
         <<"output", S("Found: ${summary}")>> >>)

\* A foreach with a negative max, and no output.
TrimWebhook ==
    D(<< <<"url", S("http://e")>>, <<"method", S("GET")>>,
         <<"foreach", D(<< <<"input_key", S("items")>>, <<"output_key", S("summary")>>,
                           <<"max", I(-1)>>, <<"append", S("${this.t};")>> >>)>> >>)

WebhookCatalog == {SearchWebhook, PostWebhook, HeadWebhook, PlainWebhook}

WebhookLists == UNION {[1..n -> WebhookCatalog] : n \in 0..MaxWebhooks}

Rule(pattern, output) == D(<< <<"pattern", S(pattern)>>, <<"output", output>> >>)

ExpressionLists ==
    {<<Rule("cats", S("E1 ${q}")), Rule("ca", D(<< <<"response", S("E2 %{args.q}")>> >>))>>}

OutputTemplates ==
    {S("F:${q} ${response.v} ${array[0]} ${result}"),
     D(<< <<"response", S("F %{args.q} ${summary}")>> >>)}

Optional(options) == {<<"absent">>} \cup {<<"present", o>> : o \in options}

\* A data_map with the given parts; an <<"absent">> part leaves its key out.
Datamap(expressions, webhooks, output) ==
    D((IF expressions[1] = "absent" THEN <<>>
       ELSE << <<"expressions", L(expressions[2])>> >>)
      \o (IF webhooks[1] = "absent" THEN <<>> ELSE << <<"webhooks", L(webhooks[2])>> >>)
      \o (IF output[1] = "absent" THEN <<>> ELSE << <<"output", output[2]>> >>))

Datamaps ==
    {Datamap(e, w, o) :
        e \in Optional(ExpressionLists), w \in Optional(WebhookLists),
        o \in Optional(OutputTemplates)}

\* A configuration is the data_map itself or {"function": ..., "data_map": ...}.
Configs ==
    Datamaps \cup {D(<< <<"function", S("tool")>>, <<"data_map", dm>> >>) : dm \in Datamaps}

Arguments ==
    {D(<< <<"q", S("cats")>> >>),
     D(<< <<"q", S("cab")>> >>),
     D(<< <<"q", S("dogs")>>, <<"response", D(<< <<"v", S("mine")>> >>)>> >>)}

\* The configurations of RenderSpec: one webhook, alone or after a webhook
\* that fails without a request, with or without a DataMap-level output.
RenderCatalog == {SearchWebhook, PostWebhook, PlainWebhook, TitlesWebhook, TrimWebhook}

RenderLists == {<<w>> : w \in RenderCatalog} \cup {<<HeadWebhook, w>> : w \in RenderCatalog}

RenderConfigs ==
    {Datamap(<<"absent">>, <<"present", w>>, o) :
        w \in RenderLists, o \in Optional(OutputTemplates)}

RenderArguments == {D(<< <<"query", S("cats")>> >>), D(<< <<"q", S("cats")>> >>)}

Json(status_code, value) == <<"response", status_code, <<"json", value>>>>
Text(status_code, raw) == <<"response", status_code, <<"text", raw>>>>
Raises(message) == <<"exception", message>>

Items == L(<<D(<< <<"t", S("A")>> >>), D(<< <<"t", S("B")>> >>), D(<< <<"t", S("C")>> >>)>>)

Titles == L(<<D(<< <<"title", S("A")>> >>), D(<< <<"title", S("B")>> >>)>>)

\* What the transport may answer to one request.
Behaviours ==
    {Json(200, D(<< <<"v", S("ok")>>, <<"items", Items>>, <<"data", L(<<I(1), S("x")>>)>> >>)),
     Json(299, D(<< <<"v", S("edge")>>, <<"error", S("")>>, <<"fault", I(0)>>,
                    <<"parse_error", B(FALSE)>> >>)),
     Json(200, D(<< <<"v", S("bad")>>, <<"error", S("boom")>> >>)),
     Json(200, D(<< <<"v", S("flt")>>, <<"fault", I(1)>> >>)),
     Json(200, D(<< <<"v", S("pe")>>, <<"parse_error", B(TRUE)>> >>)),
     Json(200, D(<< <<"v", S("pr")>>, <<"protocol_error", S("x")>> >>)),
     Json(199, D(<< <<"v", S("low")>> >>)),
     Json(300, D(<< <<"v", S("high")>> >>)),
     Json(500, D(<< <<"v", S("err")>>, <<"items", Items>> >>)),
     Json(200, D(<< <<"results", Titles>> >>)),
     Json(200, D(<< <<"v", S("none")>>, <<"items", L(<<>>)>>, <<"results", L(<<>>)>>,
                    <<"data", D(<< <<"k", I(1)>> >>)>> >>)),
     Json(200, L(<<S("first"), S("data")>>)),
     Json(200, L(<<S("parse_error")>>)),
     Json(200, S("no data")),
     Json(200, S("a protocol_error")),
     Json(200, I(5)),
     Json(200, None),
     Text(200, "<html>"),
     Text(503, "oops"),
     Raises("connection refused")}

----------------------------------------------------------------------------
(* One invocation of execute_datamap_function *)

VARIABLES
    datamap_config,   \* the configuration the function is called with
    args,             \* the arguments it is called with
    pc,               \* "start", "webhooks", "classified", "returned" or "raised"
    context,          \* context
    i,                \* the position in the webhooks list, from 1
    response,         \* what the transport answered to this webhook, if asked
    webhook_failed,   \* webhook_failed
    response_data,    \* response_data
    webhook_context,  \* webhook_context
    calls,            \* the requests the transport has received, in order
    attempts,         \* the webhooks tried so far, in order, with their outcome
    result,           \* the value returned
    exception         \* the type of the exception raised out of the function

\* One call of simple_template_expand
VARIABLES
    template,         \* template
    data,             \* data
    reference,        \* the path the template refers to, as segments, if it has one
    expanded,         \* the string returned
    substituted       \* the text put in the place of each match, in order

engine_vars == <<datamap_config, args, context, i, response, webhook_failed,
                 response_data, webhook_context, calls, attempts, result, exception>>

\* Two invocations at a time: the locals of the function belong to one
\* activation of it; the variables above are those of the running one.
VARIABLES
    running,          \* the invocation whose locals the variables above are, 1 or 2
    parked,           \* <<the locals of the other invocation>>, if there is one
    script            \* for each invocation, the transport's answer to each webhook

expander_vars == <<template, data, reference, expanded, substituted>>

frame_vars == <<running, parked, script>>

vars == <<pc, engine_vars, expander_vars, frame_vars>>

NoResponse == <<"none">>

actual_datamap == ActualDatamap(datamap_config)

HasWebhooks == HasKey(actual_datamap, "webhooks")
Webhooks == IF HasWebhooks THEN Get(actual_datamap, "webhooks")[2] ELSE <<>>
Expressions ==
    IF HasKey(actual_datamap, "expressions") THEN Get(actual_datamap, "expressions")[2]
    ELSE <<>>

\* There is one invocation, and the transport is free in its answers.
Single ==
    /\ running = 1
    /\ parked = <<>>
    /\ script = <<>>

\* The locals at the entry of execute_datamap_function, called with one of
\* `configs` and one of `arguments`.
EntryState(configs, arguments) ==
    /\ datamap_config \in configs
    /\ args \in arguments
    /\ pc = "start"
    /\ context = None
    /\ i = 0
    /\ response = NoResponse
    /\ webhook_failed = FALSE
    /\ response_data = None
    /\ webhook_context = None
    /\ calls = <<>>
    /\ attempts = <<>>
    /\ result = None
    /\ exception = ""
    /\ template = ""
    /\ data = None
    /\ reference = <<>>
    /\ expanded = ""
    /\ substituted = <<>>

\* The state at the entry of execute_datamap_function, called once.
Entry(configs, arguments) == EntryState(configs, arguments) /\ Single

Init == Entry(Configs, Arguments)

RenderInit == Entry(RenderConfigs, RenderArguments)

\* Entry and step 1: the context is built and the expressions are processed;
\* the first matching rule returns its output.
ProcessExpressions ==
    /\ pc = "start"
    /\ context' = InitialContext(args)
    /\ \E match \in {FirstMatch(Expressions, args, 1)} :
          IF match # 0
          THEN /\ result' = ExpressionResult(Expressions[match], InitialContext(args))
               /\ pc' = "returned"
               /\ i' = i
          ELSE /\ result' = result
               /\ pc' = "webhooks"
               /\ i' = 1
    /\ UNCHANGED <<frame_vars, expander_vars, datamap_config, args, response, webhook_failed, response_data,
                   webhook_context, calls, attempts, exception>>

\* Step 2, one webhook up to its classification: the request is prepared, sent
\* when the method is supported, and the answer is parsed and checked.
\* (A value bound over a one-element set is computed once.)
HttpRequest ==
    /\ pc = "webhooks"
    /\ i <= Len(Webhooks)
    /\ \E webhook \in {Webhooks[i]} :
       \E req \in {PrepareRequest(webhook, context)} :
       \E sent \in {req.method \in SupportedMethods} :
          IF req.raised
          THEN /\ pc' = "raised"
               /\ exception' = "AttributeError"
               /\ UNCHANGED <<response, webhook_failed, response_data, calls, attempts>>
          ELSE \E behaviour \in Behaviours :
               \E outcome \in {TryWebhook(webhook, req, behaviour)} :
                    /\ pc' = "classified"
                    /\ response' = IF sent THEN behaviour ELSE NoResponse
                    /\ webhook_failed' = outcome.webhook_failed
                    /\ response_data' = outcome.response_data
                    /\ calls' = IF sent THEN Append(calls, HttpCall(i, req)) ELSE calls
                    /\ attempts' = Append(attempts,
                                          [webhook |-> i, sent |-> sent,
                                           failed |-> outcome.webhook_failed])
                    /\ exception' = exception
    /\ UNCHANGED <<frame_vars, expander_vars, datamap_config, args, context, i, webhook_context, result>>

\* Steps 3 and 4, the webhook succeeded: its response goes into the webhook
\* context, its foreach and its output are processed, and the function returns.
WebhookSucceeded ==
    /\ pc = "classified"
    /\ ~webhook_failed
    /\ \E webhook \in {Webhooks[i]} :
       \E each \in {Foreach(webhook, response_data,
                            MergeResponse(context, response_data))} :
          /\ webhook_context' = each.context
          /\ IF each.raised
             THEN /\ pc' = "raised"
                  /\ exception' = "TypeError"
                  /\ result' = result
             ELSE /\ pc' = "returned"
                  /\ exception' = exception
                  /\ result' = WebhookResult(webhook, response_data, each.context)
    /\ UNCHANGED <<frame_vars, expander_vars, datamap_config, args, context, i, response, webhook_failed,
                   response_data, calls, attempts>>

\* A variant of WebhookFailed that tries the same webhook again.
WebhookFailed_again ==
    /\ pc = "classified"
    /\ webhook_failed
    /\ Len(attempts) < MaxWebhooks + 1
    /\ pc' = "webhooks"
    /\ response' = NoResponse
    /\ webhook_failed' = FALSE
    /\ response_data' = None
    /\ UNCHANGED <<frame_vars, expander_vars, datamap_config, args, context, i, webhook_context, calls, attempts,
                   result, exception>>

\* The webhook failed: on to the next one.  response_data and webhook_failed
\* are set anew before they are read again, so they are cleared here.
WebhookFailed ==
    /\ pc = "classified"
    /\ webhook_failed
    /\ pc' = "webhooks"
    /\ i' = i + 1
    /\ context' = ContextAfterFailure(context, response_data)
    /\ response' = NoResponse
    /\ webhook_failed' = FALSE
    /\ response_data' = None
    /\ UNCHANGED <<frame_vars, expander_vars, datamap_config, args, webhook_context, calls, attempts, result,
                   exception>>

\* The webhooks loop is over (or there is no webhooks key) and no webhook
\* returned.
LoopOver == pc = "webhooks" /\ i > Len(Webhooks)

\* Step 5: the DataMap-level output is rendered and returned.
FallbackOutput ==
    /\ LoopOver
    /\ HasKey(actual_datamap, "output")
    /\ result' = FallbackResult(Get(actual_datamap, "output"), context)
    /\ pc' = "returned"
    /\ UNCHANGED <<frame_vars, expander_vars, datamap_config, args, context, i, response, webhook_failed,
                   response_data, webhook_context, calls, attempts, exception>>

\* No fallback defined: the generic error is returned.
GenericError ==
    /\ LoopOver
    /\ ~HasKey(actual_datamap, "output")
    /\ result' = GenericErrorResult
    /\ pc' = "returned"
    /\ UNCHANGED <<frame_vars, expander_vars, datamap_config, args, context, i, response, webhook_failed,
                   response_data, webhook_context, calls, attempts, exception>>

Next ==
    \/ ProcessExpressions
    \/ HttpRequest
    \/ WebhookSucceeded
    \/ WebhookFailed
    \/ FallbackOutput
    \/ GenericError

Spec == Init /\ [][Next]_vars

RenderSpec == RenderInit /\ [][Next]_vars

----------------------------------------------------------------------------
(* One call of simple_template_expand *)

\* The most segments of a path, and the greatest index in one.
MaxDepth == 3
MaxIndex == 2

\* A path is a sequence of segments, <<"name", s>> or <<"index", n>>.
Name(s) == <<"name", s>>
Index(n) == <<"index", n>>

Segments == {Name(s) : s \in {"a", "arr", "o", "x"}} \cup {Index(n) : n \in -1..MaxIndex}

Paths == UNION {[1..n -> Segments] : n \in 1..MaxDepth}

\* A path as a template writes it: a.b for names, a[0] for an index.
RECURSIVE PathTextFrom(_, _)
PathTextFrom(path, n) ==
    IF n > Len(path) THEN ""
    ELSE (IF path[n][1] = "index" THEN "[" \o IntStr(path[n][2]) \o "]"
          ELSE (IF n > 1 THEN "." ELSE "") \o path[n][2])
         \o PathTextFrom(path, n + 1)

PathText(path) == PathTextFrom(path, 1)

\* The reference to var_path in the syntax of `sigil`: ${var_path} or %{var_path}.
Placeholder(sigil, var_path) == sigil \o "{" \o var_path \o "}"

PlainContext ==
    D(<< <<"a", S("v")>>,
         <<"arr", L(<<D(<< <<"x", S("p")>> >>),
                      D(<< <<"x", S("q")>>, <<"a", L(<<I(7)>>)>> >>)>>)>>,
         <<"o", D(<< <<"a", I(5)>>, <<"x", B(TRUE)>>, <<"o", None>>,
                     <<"arr", L(<<S("s"), L(<<S("t")>>)>>)>> >>)>>,
         <<"x", S("")>> >>)

\* Values that hold placeholders themselves.
QuotingContext ==
    D(<< <<"a", S("%{x}")>>, <<"x", S("${a}")>>,
         <<"o", D(<< <<"a", S("%{o.x}")>>, <<"x", S("y")>> >>)>>,
         <<"arr", L(<<S("${x}"), S("%{a}")>>)>> >>)

\* Keys that hold brackets.
BracketContext ==
    D(<< <<"a[0", S("odd")>>, <<"a]", S("end")>>,
         <<"arr", L(<<D(<< <<"[", S("open")>>, <<"]", S("shut")>> >>)>>)>> >>)

Contexts == {PlainContext, QuotingContext, BracketContext, D(<<>>)}

\* Templates without a placeholder.
PlainTemplates ==
    {"", "plain", "$a", "{a}", "${", "${}", "%{}", "$ {a}", "100% {a}", "${a", "a}", "$%{"}

\* References with bracket syntax that does not parse.
BracketPaths ==
    {"arr[x]", "arr[]", "arr[1.5]", "arr[0", "a[0", "a]", "arr[0]]", "arr[0][", "arr[0].x]",
     "[", "]["}

\* Templates of several placeholders.
MixedTemplates ==
    {"${a} and %{a}", "%{a}${a}", "${a} ${a}", "${a}${x}", "${arr[0]}${x}",
     "x ${o.a} ${arr[0].x} %{none}", "${o.x}%{o.a}", "a ${arr[1].a[0]} %{arr[-1]} b"}

\* The text line 960 puts in the place of each match of one pattern, found in
\* `scanned` as it is when the pass begins.
Substitutions(sigil, scanned, values) ==
    [n \in 1..Len(FindIter(sigil, scanned)) |->
        [var_path |-> FindIter(sigil, scanned)[n].var_path,
         text |-> PyStr(Resolve(FindIter(sigil, scanned)[n].var_path, values))]]

ExpandInit ==
    /\ Single
    /\ pc = "expand"
    /\ datamap_config = None
    /\ args = None
    /\ context = None
    /\ i = 0
    /\ response = NoResponse
    /\ webhook_failed = FALSE
    /\ response_data = None
    /\ webhook_context = None
    /\ calls = <<>>
    /\ attempts = <<>>
    /\ result = None
    /\ exception = ""
    /\ data \in Contexts
    /\ \/ \E path \in Paths : \E sigil \in {"$", "%"} :
             /\ template = Placeholder(sigil, PathText(path))
             /\ reference = path
       \/ /\ template \in PlainTemplates \cup MixedTemplates
                          \cup {Placeholder(sigil, var_path) :
                                   sigil \in {"$", "%"}, var_path \in BracketPaths}
          /\ reference = <<>>
    /\ expanded = ""
    /\ substituted = <<>>

\* simple_template_expand(template, data)
Expand ==
    /\ pc = "expand"
    /\ expanded' = simple_template_expand(template, data)
    /\ substituted' =
          IF template = "" THEN <<>>
          ELSE Substitutions("$", template, data)
               \o Substitutions("%", ExpandPattern("$", template, data), data)
    /\ pc' = "expanded"
    /\ UNCHANGED <<frame_vars, engine_vars, template, data, reference>>

ExpandNext == Expand

ExpandSpec == ExpandInit /\ [][ExpandNext]_vars

----------------------------------------------------------------------------
(* Properties of one invocation *)

\* The context that holds the call arguments and nothing else: the arguments
\* under "args" and each of them at the top level.
ArgsContext == D(<< <<"args", args>> >> \o args[2])

\* Rule n of the configuration matches the stringified arguments.
RuleMatches(n) == Contains(PyStr(args), Get(Expressions[n], "pattern")[2])

FirstMatching ==
    CHOOSE n \in 1..Len(Expressions) : RuleMatches(n) /\ \A m \in 1..(n - 1) : ~RuleMatches(m)

\* Every configured webhook (there is at least one) was tried and failed.
AllTriedAndFailed ==
    /\ Len(Webhooks) >= 1
    /\ Len(attempts) = Len(Webhooks)
    /\ \A n \in 1..Len(attempts) : attempts[n].failed

\* The transport answered the webhook at hand with a response, now classified.
Classified == pc = "classified" /\ response[1] = "response"

\* The error keys of a webhook as the documentation reads them: a single
\* string counts as a one-element list.
ErrorKeySet(webhook) ==
    IF ~HasKey(webhook, "error_keys") THEN {}
    ELSE IF IsStr(Get(webhook, "error_keys")) THEN {Get(webhook, "error_keys")[2]}
    ELSE {Get(webhook, "error_keys")[2][n][2] : n \in 1..Len(Get(webhook, "error_keys")[2])}

\* The object `body` has a truthy value under one of `keys`.
TruthyKey(body, keys) == \E key \in keys : HasKey(body, key) /\ Truthy(Get(body, key))

\* C1 as stated: the HTTP calls go to a prefix of the webhooks list in
\* declaration order; webhook k is called only after every webhook j<k was
\* called and classified as failed, each webhook is called at most once, and
\* none is called after the first one classified as successful.
C1_CallsFormPrefix ==
    /\ \A n \in 1..Len(calls) : calls[n].webhook = n
    /\ \A n \in 1..Len(calls) : \A j \in 1..(calls[n].webhook - 1) :
          \E a \in 1..Len(attempts) :
             attempts[a].webhook = j /\ attempts[a].sent /\ attempts[a].failed
    /\ \A a \in 1..Len(attempts) : \A n \in 1..Len(calls) :
          ~attempts[a].failed => calls[n].webhook <= attempts[a].webhook

\* C1, amended: the webhooks tried are a prefix of the webhooks list in
\* declaration order; webhook k is tried only after every webhook j<k was
\* tried and classified as failed, each webhook is tried at most once and
\* receives at most one HTTP call (none when its method is unsupported, which
\* is a failure), and none is tried after the first one classified as
\* successful.
C1_AttemptsFormPrefix ==
    /\ Len(attempts) <= Len(Webhooks)
    /\ \A n \in 1..Len(attempts) : attempts[n].webhook = n
    /\ \A n \in 1..(Len(attempts) - 1) : attempts[n].failed
    /\ \A n \in 1..Len(attempts) :
          /\ attempts[n].sent <=>
                Upper(GetOr(Webhooks[n], "method", S("POST"))[2])
                   \in {"GET", "POST", "PUT", "PATCH", "DELETE"}
          /\ ~attempts[n].sent => attempts[n].failed
    /\ LET sent == SelectSeq(attempts, LAMBDA a : a.sent)
       IN /\ Len(calls) = Len(sent)
          /\ \A n \in 1..Len(calls) : calls[n].webhook = sent[n].webhook

\* C1: the second webhook succeeded after the first was called and failed.
C1_Witness ==
    /\ pc = "returned"
    /\ Len(attempts) = 2 /\ attempts[1].failed /\ ~attempts[2].failed
    /\ Len(calls) = 2

\* C2: when one or more rules match the stringified arguments, the function
\* returns the expansion of the output of the first matching rule, against
\* the arguments, and no webhook is tried or called.
C2_FirstRuleWins ==
    (pc # "start" /\ \E n \in 1..Len(Expressions) : RuleMatches(n)) =>
        /\ pc = "returned"
        /\ result = S(simple_template_expand(
                          PyStr(Get(Expressions[FirstMatching], "output")), ArgsContext))
        /\ calls = <<>>
        /\ attempts = <<>>

\* C2: two rules match and webhooks are configured.
C2_Witness ==
    /\ pc = "returned"
    /\ Len(Expressions) = 2 /\ RuleMatches(1) /\ RuleMatches(2)
    /\ Len(Webhooks) >= 1

\* C3: the context a successful webhook renders its foreach and output with
\* holds its own response (under "array" when a list, under "response"
\* otherwise), its own foreach output and the call arguments, and nothing
\* else; the result is rendered from that context and that response.
C3_OnlyOwnResponse ==
    webhook_context # None =>
        /\ response[1] = "response" /\ response[3][1] = "json"
        /\ LET slot == IF IsList(response[3][2]) THEN "array" ELSE "response"
               own == Foreach(Webhooks[i], response[3][2], D(<<>>)).context
           IN /\ HasKey(webhook_context, slot)
              /\ Get(webhook_context, slot) = response[3][2]
              /\ \A n \in 1..Len(webhook_context[2]) :
                    LET key == webhook_context[2][n][1]
                        value == webhook_context[2][n][2]
                    IN \/ key = slot
                       \/ HasKey(own, key) /\ value = Get(own, key)
                       \/ key = "args" /\ value = args
                       \/ HasKey(args, key) /\ value = Get(args, key)
        /\ pc = "returned" =>
              result = WebhookResult(Webhooks[i], response[3][2], webhook_context)

\* C3: the second webhook succeeded after the first one was called and failed.
C3_Witness ==
    /\ pc = "returned" /\ webhook_context # None
    /\ i = 2 /\ attempts[1].sent /\ attempts[1].failed

\* C4 as stated: the function raises no exception.
C4_NeverRaises == pc # "raised"

\* C5: when every configured webhook failed and the DataMap has no output,
\* the result is the generic error.
C5_GenericError ==
    (pc = "returned" /\ AllTriedAndFailed /\ ~HasKey(actual_datamap, "output")) =>
        result = D(<< <<"error", S("All webhooks failed and no fallback output defined")>>,
                      <<"status", S("failed")>> >>)

\* C5: two webhooks failed and there is no output.
C5_Witness ==
    /\ pc = "returned" /\ AllTriedAndFailed /\ Len(attempts) = 2
    /\ ~HasKey(actual_datamap, "output")

\* The fallback stage was reached after every webhook failed.
FallbackCase == pc = "returned" /\ AllTriedAndFailed /\ HasKey(actual_datamap, "output")

\* The text of the argument q, or the sentinel of the reference when the
\* arguments have no q.
ArgumentQ(var_path) ==
    IF HasKey(args, "q") THEN Get(args, "q")[2] ELSE "<MISSING:" \o var_path \o ">"

StringFallback == S("F:${q} ${response.v} ${array[0]} ${result}")
MapFallback == D(<< <<"response", S("F %{args.q} ${summary}")>> >>)

\* C6 as stated: in the fallback output every reference to response, array or
\* a foreach output key renders as the sentinel.
C6_ReferencesAreMissing ==
    FallbackCase =>
        /\ Get(actual_datamap, "output") = StringFallback =>
              result = S("F:" \o ArgumentQ("q")
                         \o " <MISSING:response.v> <MISSING:array[0]> <MISSING:result>")
        /\ Get(actual_datamap, "output") = MapFallback =>
              result = D(<< <<"response",
                              S("F " \o ArgumentQ("args.q") \o " <MISSING:summary>")>> >>)

\* C6, amended: the fallback output is rendered against a context that holds
\* only the call arguments, so a reference to response, array or a foreach
\* output key renders as the sentinel unless the arguments have a key of that
\* name, and then it is resolved in the arguments.
C6_FallbackSeesOnlyArguments ==
    FallbackCase =>
        /\ context = ArgsContext
        /\ Get(actual_datamap, "output") = StringFallback =>
              result = S("F:" \o ArgumentQ("q") \o " "
                         \o (IF HasKey(args, "response")
                             THEN PyStr(Resolve("response.v", args))
                             ELSE "<MISSING:response.v>")
                         \o " <MISSING:array[0]> <MISSING:result>")
        /\ Get(actual_datamap, "output") = MapFallback =>
              result = D(<< <<"response",
                              S("F " \o ArgumentQ("args.q") \o " <MISSING:summary>")>> >>)

\* C6: two webhooks failed and the fallback rendered the sentinels.
C6_Witness ==
    /\ FallbackCase /\ Len(attempts) = 2 /\ attempts[1].sent
    /\ Get(actual_datamap, "output") = StringFallback
    /\ ~HasKey(args, "response")

\* C7: a response with a status code below 200 or above 299 is a failure
\* whatever its body; with the status code 200 or 299 a webhook fails only
\* for another cause (a body that is no JSON object, or a truthy error key).
C7_StatusRange ==
    Classified =>
        /\ (response[2] < 200 \/ response[2] > 299) => webhook_failed
        /\ ( /\ response[2] \in {200, 299}
             /\ response[3][1] = "json" /\ IsDict(response[3][2])
             /\ ~TruthyKey(response[3][2],
                           {"parse_error", "protocol_error"} \cup ErrorKeySet(Webhooks[i])) )
           => ~webhook_failed

\* C7: a response with status 300 and a JSON object without error key failed.
C7_Witness ==
    /\ Classified /\ response[2] = 300 /\ webhook_failed
    /\ response[3][1] = "json" /\ IsDict(response[3][2])
    /\ ~TruthyKey(response[3][2], {"parse_error", "protocol_error", "error", "fault"})

\* C8: a body that is not JSON is replaced by the payload with parse_error
\* True and the webhook fails, also with a 2xx status; a JSON object with a
\* truthy parse_error or protocol_error fails.
C8_ParseErrors ==
    Classified =>
        /\ response[3][1] = "text" =>
              /\ webhook_failed
              /\ response_data = D(<< <<"text", S(response[3][2])>>,
                                      <<"status_code", I(response[2])>>,
                                      <<"parse_error", B(TRUE)>>,
                                      <<"raw_response", S(response[3][2])>> >>)
        /\ ( /\ response[3][1] = "json" /\ IsDict(response[3][2])
             /\ TruthyKey(response[3][2], {"parse_error", "protocol_error"}) )
           => webhook_failed

\* C8: a response with status 200 and a body that is not JSON failed.
C8_Witness ==
    /\ Classified /\ response[2] = 200 /\ response[3][1] = "text"
    /\ webhook_failed /\ Truthy(Get(response_data, "parse_error"))

\* C9: a 2xx response whose body is a JSON object without truthy parse_error
\* or protocol_error fails if and only if one of the webhook's error keys is
\* in it with a truthy value.
C9_ErrorKeys ==
    ( /\ Classified /\ response[2] >= 200 /\ response[2] <= 299
      /\ response[3][1] = "json" /\ IsDict(response[3][2])
      /\ ~TruthyKey(response[3][2], {"parse_error", "protocol_error"}) )
    => (webhook_failed <=> TruthyKey(response[3][2], ErrorKeySet(Webhooks[i])))

\* C9: a webhook whose error_keys is a single string failed on that key.
C9_Witness ==
    /\ Classified /\ response[2] = 200 /\ webhook_failed
    /\ HasKey(Webhooks[i], "error_keys") /\ IsStr(Get(Webhooks[i], "error_keys"))
    /\ response[3][1] = "json" /\ IsDict(response[3][2])
    /\ ~TruthyKey(response[3][2], {"parse_error", "protocol_error"})

\* C10: when the HTTP call of webhook k raises, or its method is unsupported
\* (then no request is sent), the webhook is classified as failed, the context
\* stays the one of the arguments, and the next step goes on to webhook k+1,
\* or to the fallback stage after the last webhook.
C10_ExceptionsFail ==
    [][ (pc = "classified" /\ (response = NoResponse \/ response[1] = "exception")) =>
           /\ webhook_failed
           /\ response = NoResponse => \A n \in 1..Len(calls) : calls[n].webhook # i
           /\ pc' = "webhooks" /\ i' = i + 1
           /\ context' = ArgsContext
           /\ webhook_context' = None /\ result' = None
           /\ i = Len(Webhooks) => LoopOver' ]_vars

\* C10: the last of two webhooks had an unsupported method, and the engine is
\* at the fallback stage.
C10_Witness ==
    /\ LoopOver /\ Len(attempts) = 2
    /\ ~attempts[2].sent /\ attempts[2].failed

----------------------------------------------------------------------------
(* Properties of the foreach and the output of a successful webhook *)

\* A webhook succeeded and the function returned its result.
Succeeded == pc = "returned" /\ webhook_context # None

\* The successful webhook and the settings of its foreach, with the defaults
\* of the documentation.
Winner == Webhooks[i]
InputKey == GetOr(Get(Winner, "foreach"), "input_key", S("data"))[2]
OutputKey == GetOr(Get(Winner, "foreach"), "output_key", S("result"))[2]
MaxItems == GetOr(Get(Winner, "foreach"), "max", I(100))[2]
AppendTemplate == GetOr(Get(Winner, "foreach"), "append", S("${this.value}"))[2]

\* The successful webhook has a foreach.
ForeachConfigured == Succeeded /\ HasKey(Winner, "foreach")

\* ... and its response is an object that holds a list under the input key.
ForeachOverList ==
    /\ ForeachConfigured /\ IsDict(response_data)
    /\ HasKey(response_data, InputKey) /\ IsList(Get(response_data, InputKey))

InputList == Get(response_data, InputKey)[2]

\* The string the foreach left under the output key; nothing when it left none.
Rendered ==
    IF HasKey(webhook_context, OutputKey) THEN Get(webhook_context, OutputKey)[2] ELSE ""

\* The append expansions of the first k elements of the input list, joined.
FirstRendered(k) == JoinItems(SubSeq(InputList, 1, k), AppendTemplate, 1)

\* C11 as stated: the foreach renders exactly the first min(max, length)
\* elements of the input list, in list order, and so at most max of them.
C11_MaxBoundsRendered ==
    ForeachOverList =>
        \E k \in 0..Len(InputList) :
           /\ k <= MaxItems
           /\ k = (IF MaxItems < Len(InputList) THEN MaxItems ELSE Len(InputList))
           /\ Rendered = FirstRendered(k)

\* C12 as stated: when the response holds a list under the input key, the
\* empty list included, the foreach sets the output key to the joined append
\* expansions of leading elements (the empty string for the empty list);
\* otherwise it leaves the context as it was, the arguments and the response.
C12_ListSetsOutputKey ==
    ForeachConfigured =>
        IF ForeachOverList
        THEN /\ HasKey(webhook_context, OutputKey)
             /\ \E k \in 0..Len(InputList) :
                   Get(webhook_context, OutputKey) = S(FirstRendered(k))
        ELSE webhook_context =
                 Put(context, IF IsList(response_data) THEN "array" ELSE "response",
                     response_data)

\* The scenario of the documentation: one GET webhook with a foreach over
\* results, called with the query cats, answered with two titles.
ScenarioCase ==
    /\ Webhooks = <<TitlesWebhook>>
    /\ args = D(<< <<"query", S("cats")>> >>)
    /\ response = Json(200, D(<< <<"results",
                       L(<<D(<< <<"title", S("A")>> >>), D(<< <<"title", S("B")>> >>)>>)>> >>))

\* C18: in the scenario the URL is sent with the query expanded, the webhook
\* succeeds, the foreach stores A; B; under summary and the result is
\* Found: A; B; .
C18_Scenario ==
    ScenarioCase =>
        /\ calls = <<[webhook |-> 1, method |-> "GET", url |-> "https://x/search?q=cats",
                      headers |-> D(<<>>), data |-> None]>>
        /\ \/ pc = "classified" /\ ~webhook_failed
           \/ /\ pc = "returned"
              /\ Get(webhook_context, "summary") = S("A; B; ")
              /\ result = S("Found: A; B; ")

\* C18: the scenario has returned.
C18_Witness == ScenarioCase /\ pc = "returned" /\ result = S("Found: A; B; ")

\* The fallback output was rendered: the webhooks loop ended without a result.
FallbackUsed == pc = "returned" /\ i > Len(Webhooks) /\ HasKey(actual_datamap, "output")

\* `value` is the rendering of the output template `output` against ctx: for
\* a map the same keys, each with the expansion of its template value (of its
\* string form when it is no string); for a string its expansion.
RendersAs(value, output, ctx) ==
    IF IsDict(output)
    THEN /\ IsDict(value)
         /\ Keys(value) = Keys(output)
         /\ \A n \in 1..Len(output[2]) :
               value[2][n][2] = S(simple_template_expand(PyStr(output[2][n][2]), ctx))
    ELSE IsStr(output) => value = S(simple_template_expand(output[2], ctx))

\* C19: the result of a successful webhook with an output is the rendering of
\* that output against the webhook context, and the result of the fallback
\* stage is the rendering of the DataMap-level output against the context.
C19_OutputShape ==
    /\ (Succeeded /\ HasKey(Winner, "output")) =>
          RendersAs(result, Get(Winner, "output"), webhook_context)
    /\ FallbackUsed => RendersAs(result, Get(actual_datamap, "output"), context)

\* C19: a webhook with a map output of two keys succeeded.
C19_Witness ==
    /\ Succeeded /\ HasKey(Winner, "output") /\ IsDict(Get(Winner, "output"))
    /\ Keys(result) = <<"response", "count">>

\* C20: the result of a successful webhook without an output is the response
\* as the transport gave it, whatever the foreach and the DataMap-level output.
C20_PassThrough ==
    (Succeeded /\ ~HasKey(Winner, "output")) =>
        /\ response[3][1] = "json"
        /\ result = response[3][2]

\* C20: a webhook without an output succeeded, its foreach has set its output
\* key, and the DataMap has an output.
C20_Witness ==
    /\ Succeeded /\ ~HasKey(Winner, "output")
    /\ HasKey(Winner, "foreach") /\ HasKey(webhook_context, OutputKey)
    /\ HasKey(actual_datamap, "output")
    /\ result = response[3][2]

----------------------------------------------------------------------------
(* Properties of simple_template_expand *)

\* The call has returned.
Expanded == pc = "expanded"

\* <MISSING:var_path>
Sentinel(var_path) == "<MISSING:" \o var_path \o ">"

\* The template is one reference whose bracket syntax does not parse.
IsBracketReference ==
    \E sigil \in {"$", "%"} : \E var_path \in BracketPaths :
       template = Placeholder(sigil, var_path)

\* The path of a template that is one reference.
VarPathOf(t) == SubSeq(t, 3, Len(t) - 1)

\* The value has, at some depth, a key with a bracket in its name.
RECURSIVE HasBracketKey(_)
HasBracketKey(v) ==
    CASE IsDict(v) ->
           \E n \in 1..Len(v[2]) :
              \/ Contains(v[2][n][1], "[") \/ Contains(v[2][n][1], "]")
              \/ HasBracketKey(v[2][n][2])
      [] IsList(v) -> \E n \in 1..Len(v[2]) : HasBracketKey(v[2][n])
      [] OTHER -> FALSE

\* C13 as stated: the call returns a string, and a reference whose bracket
\* syntax does not parse renders as the sentinel of its path.
C13_BracketsAreMissing ==
    Expanded =>
        /\ expanded \in STRING
        /\ IsBracketReference => expanded = Sentinel(VarPathOf(template))

\* C13, amended: the call returns a string, and a reference whose bracket
\* syntax does not parse renders as the sentinel of its path unless the
\* context has a key with a bracket in its name (an unclosed or stray bracket
\* stays in the name of its segment, which is looked up as a key).
C13_BracketsAreMissingOrNames ==
    Expanded =>
        /\ expanded \in STRING
        /\ (IsBracketReference /\ ~HasBracketKey(data)) =>
              expanded = Sentinel(VarPathOf(template))

\* C13: an index that is no integer, on a list that is there.
C13_Witness ==
    /\ Expanded /\ template = "${arr[x]}" /\ data = PlainContext
    /\ expanded = "<MISSING:arr[x]>"

\* The value a path leads to in `value`, from segment n on, as the
\* documentation resolves it: a name in a map that has it, an index in a
\* list within 0..length-1.  <<"found", v>> or <<"missing">>.
RECURSIVE Lookup(_, _, _)
Lookup(value, path, n) ==
    IF n > Len(path) THEN <<"found", value>>
    ELSE IF path[n][1] = "name"
    THEN IF IsDict(value) /\ HasKey(value, path[n][2])
         THEN Lookup(Get(value, path[n][2]), path, n + 1)
         ELSE <<"missing">>
    ELSE IF IsList(value) /\ path[n][2] \in 0..(Len(value[2]) - 1)
         THEN Lookup(value[2][path[n][2] + 1], path, n + 1)
         ELSE <<"missing">>

\* The template is one reference to a path, and the call has returned.
ReferenceExpanded == Expanded /\ reference # <<>>

Resolves == Lookup(data, reference, 1)[1] = "found"
Resolved == Lookup(data, reference, 1)[2]

\* C14 as stated: when the path resolves to a value v, ${path} and %{path}
\* expand to the same string, str(v).
C14_BothSyntaxesAgree ==
    (ReferenceExpanded /\ Resolves) =>
        /\ expanded = PyStr(Resolved)
        /\ simple_template_expand(Placeholder("$", PathText(reference)), data)
              = simple_template_expand(Placeholder("%", PathText(reference)), data)

\* One pass over the template from position p, left to right: each
\* placeholder of either syntax gives way to the string of its value, and
\* the scan goes on behind the placeholder, in the template.
RECURSIVE SinglePass(_, _, _)
SinglePass(t, p, values) ==
    LET close == Find(t, "}", p + 2)
    IN IF p > Len(t) THEN ""
       ELSE IF /\ p + 1 <= Len(t) /\ SubSeq(t, p, p + 1) \in {"${", "%{"}
               /\ close > p + 2
       THEN PyStr(Resolve(SubSeq(t, p + 2, close - 1), values))
            \o SinglePass(t, close + 1, values)
       ELSE Char(t, p) \o SinglePass(t, p + 1, values)

\* C15 as stated: the result is the template with each of its placeholders
\* replaced by the string of its value in a single pass; substituted text is
\* not scanned again.
C15_SubstitutedTextVerbatim == Expanded => expanded = SinglePass(template, 1, data)

\* C16: the text put in the place of a reference is the string of the value
\* the whole path leads to, or the sentinel with the whole path when a
\* segment fails: a missing key, a name on what is no map, an index on what
\* is no list, an index outside 0..length-1.
C16_WholeOrSentinel ==
    ReferenceExpanded =>
        /\ Len(substituted) >= 1
        /\ substituted[1].var_path = PathText(reference)
        /\ substituted[1].text =
              IF Resolves THEN PyStr(Resolved) ELSE Sentinel(PathText(reference))

\* C16: a negative index after a name that resolves.
C16_Witness ==
    /\ ReferenceExpanded /\ data = PlainContext
    /\ reference = <<Name("arr"), Index(-1), Name("x")>>
    /\ expanded = "<MISSING:arr[-1].x>"

\* The template holds a placeholder: ${ or %{, one character or more that is
\* no closing brace, and a closing brace.
HasPlaceholder(t) ==
    \E p \in 1..Len(t) : \E q \in (p + 3)..Len(t) :
       /\ SubSeq(t, p, p + 1) \in {"${", "%{"}
       /\ Char(t, q) = "}"
       /\ \A r \in (p + 2)..(q - 1) : Char(t, r) # "}"

\* C17: the expansion of a template without a placeholder is the template.
C17_NoPlaceholderUnchanged == (Expanded /\ ~HasPlaceholder(template)) => expanded = template

\* C17: a template with the characters of a placeholder, but no placeholder.
C17_Witness ==
    /\ Expanded /\ template = "100% {a}" /\ ~HasPlaceholder(template)
    /\ data = PlainContext /\ expanded = "100% {a}"

----------------------------------------------------------------------------
(* Webhooks with several payload keys *)

PayloadMethods == {"POST", "PUT", "PATCH", "GET", "DELETE"}

ParamsOptions == Optional({D(<< <<"q", S("${q}")>> >>), S("p=${q}")})
BodyOptions == Optional({S("b=${q}"), D(<< <<"b", S("%{args.q}")>> >>)})
DataOptions == Optional({S("d=${q}"), D(<< <<"d", S("${q}")>> >>)})

\* A webhook with the given method and payload keys; an <<"absent">> key is
\* left out.
PayloadWebhook(method, params, body, payload) ==
    D(<< <<"url", S("http://p")>>, <<"method", S(method)>> >>
      \o (IF payload[1] = "absent" THEN <<>> ELSE << <<"data", payload[2]>> >>)
      \o (IF body[1] = "absent" THEN <<>> ELSE << <<"body", body[2]>> >>)
      \o (IF params[1] = "absent" THEN <<>> ELSE << <<"params", params[2]>> >>))

PayloadWebhooks ==
    {PayloadWebhook(m, p, b, d) :
        m \in PayloadMethods, p \in ParamsOptions, b \in BodyOptions, d \in DataOptions}

PayloadConfigs ==
    {Datamap(<<"absent">>, <<"present", <<w>>>>, o) :
        w \in PayloadWebhooks, o \in Optional({S("F:${q}")})}

PayloadArguments == {D(<< <<"q", S("cats")>> >>)}

PayloadInit == Entry(PayloadConfigs, PayloadArguments)

PayloadSpec == PayloadInit /\ [][Next]_vars

----------------------------------------------------------------------------
(* Webhooks whose foreach and output refer to this *)

\* A webhook with a foreach whose append template refers to the element and
\* to the arguments or the response, and an output that refers to this.
ForeachWebhook(input_key, output_key, append_template) ==
    D(<< <<"url", S("http://f")>>, <<"method", S("GET")>>,
         <<"foreach", D(<< <<"input_key", S(input_key)>>, <<"output_key", S(output_key)>>,
                           <<"max", I(2)>>, <<"append", S(append_template)>> >>)>>,
         <<"output", S("O:${this.t}|${" \o output_key \o "}")>> >>)

ForeachWebhooks ==
    {ForeachWebhook(over[1], output_key, over[2]) :
        over \in {<<"items", "${this.t}${q};">>, <<"items", "${this.t}%{response.v},">>,
                  <<"data", "${this.value}${args.q};">>},
        output_key \in {"summary", "this"}}

ForeachConfigs ==
    {Datamap(<<"absent">>, <<"present", <<w>>>>, o) :
        w \in ForeachWebhooks, o \in Optional({S("F:${q}")})}

ForeachArguments ==
    {D(<< <<"q", S("cats")>> >>),
     D(<< <<"q", S("cats")>>, <<"this", D(<< <<"t", S("Z")>> >>)>> >>)}

ForeachInit == Entry(ForeachConfigs, ForeachArguments)

ForeachSpec == ForeachInit /\ [][Next]_vars

----------------------------------------------------------------------------
(* Arguments with keys of several kinds *)

KeyArguments ==
    {D(<< <<"q", S("cats")>> >>),
     D(<< <<"n", I(5)>>, <<"m", D(<< <<"k", L(<<B(TRUE), None>>)>> >>)>> >>),
     D(<< <<"q", S("${n} %{args.q}")>>, <<"n", S("x")>> >>),
     D(<< <<"args", S("x")>> >>),
     D(<< <<"q", S("cats")>>, <<"args", D(<< <<"q", S("dogs")>> >>)>> >>),
     D(<< <<"a.b", S("v")>> >>),
     D(<< <<"a[0]", S("v")>>, <<"a[", S("w")>> >>)}

ArgumentConfigs ==
    {Datamap(<<"absent">>, <<"present", <<PlainWebhook>>>>, o) : o \in Optional({S("F:${q}")})}

ArgumentsInit == Entry(ArgumentConfigs, KeyArguments)

ArgumentsSpec == ArgumentsInit /\ [][Next]_vars

----------------------------------------------------------------------------
(* Tools built with the DataMap builder *)

\* SwaigFunctionResult(response): the response text and no action.
SwaigFunctionResult(response_text) == [response |-> response_text, actions |-> <<>>]

\* SwaigFunctionResult.to_dict
to_dict(self) ==
    D(<< <<"status", S("ok")>>,
         <<"result", D(<< <<"response", S(self.response)>>,
                          <<"action", L(self.actions)>> >>)>> >>)

\* DataMap(function_name)
DataMap(function_name) ==
    [function_name |-> function_name, purpose |-> "", parameters |-> D(<<>>),
     expressions |-> <<>>, webhooks |-> <<>>, foreach |-> None, output |-> None,
     error_keys |-> <<>>]

\* DataMap.expression(pattern, output), pattern a string
DataMap_expression(self, pattern, output) ==
    [self EXCEPT !.expressions =
        Append(@, D(<< <<"string", S(pattern)>>, <<"output", to_dict(output)>> >>))]

\* DataMap.webhook(method, url, headers)
DataMap_webhook(self, method, url, headers) ==
    [self EXCEPT !.webhooks =
        Append(@, D(<< <<"url", S(url)>>, <<"method", S(Upper(method))>> >>
                    \o (IF Truthy(headers) THEN << <<"headers", headers>> >> ELSE <<>>)))]

\* DataMap.output(result)
DataMap_output(self, output) == [self EXCEPT !.output = to_dict(output)]

\* DataMap.to_swaig_function
to_swaig_function(self) ==
    LET required_params == GetOr(self.parameters, "required", L(<<>>))
        param_properties ==
            D(SelectSeq(self.parameters[2], LAMBDA pair : pair[1] # "required"))
        param_schema ==
            IF Truthy(self.parameters)
            THEN D(<< <<"type", S("object")>>, <<"properties", param_properties>> >>
                   \o (IF Truthy(required_params)
                       THEN << <<"required", required_params>> >> ELSE <<>>))
            ELSE D(<< <<"type", S("object")>>, <<"properties", D(<<>>)>> >>)
        data_map ==
            D((IF self.expressions # <<>>
               THEN << <<"expressions", L(self.expressions)>> >> ELSE <<>>)
              \o (IF self.webhooks # <<>>
                  THEN << <<"webhooks", L(self.webhooks)>> >> ELSE <<>>)
              \o (IF Truthy(self.foreach) THEN << <<"foreach", self.foreach>> >> ELSE <<>>)
              \o (IF Truthy(self.output) THEN << <<"output", self.output>> >> ELSE <<>>)
              \o (IF self.error_keys # <<>>
                  THEN << <<"error_keys", L(self.error_keys)>> >> ELSE <<>>))
    IN D(<< <<"function", S(self.function_name)>>,
            <<"description", S(IF self.purpose # "" THEN self.purpose
                               ELSE "Execute " \o self.function_name)>>,
            <<"parameters", param_schema>>,
            <<"data_map", data_map>> >>)

BuilderResults == {SwaigFunctionResult("W:${response.v} ${q}"), SwaigFunctionResult("R")}

BuilderHeaders == {None, D(<< <<"X-Q", S("${q}")>> >>)}

BuilderPatterns == {"cats", "q"}

\* DataMap(name).webhook(method, url, headers), with or without .output(result)
WebhookTools ==
    {DataMap_webhook(DataMap("tool"), method, "http://x/${q}", headers) :
        method \in {"get", "POST"}, headers \in BuilderHeaders}

\* The tools of the model, serialized: a webhook with or without an output, a
\* rule alone, and a rule before a webhook with an output.
BuiltTools ==
    {to_swaig_function(tool) : tool \in WebhookTools}
    \cup {to_swaig_function(DataMap_output(tool, output)) :
             tool \in WebhookTools, output \in BuilderResults}
    \cup {to_swaig_function(DataMap_expression(DataMap("tool"), pattern, output)) :
             pattern \in BuilderPatterns, output \in BuilderResults}
    \cup {to_swaig_function(
              DataMap_output(
                  DataMap_webhook(DataMap_expression(DataMap("tool"), pattern, output),
                                  "POST", "http://y", None),
                  output)) :
             pattern \in BuilderPatterns, output \in BuilderResults}

BuilderArguments == {D(<< <<"q", S("cats")>> >>), D(<< <<"q", S("dogs")>> >>)}

BuilderInit == Entry(BuiltTools, BuilderArguments)

BuilderSpec == BuilderInit /\ [][Next]_vars

----------------------------------------------------------------------------
(* Properties of the shape of the result *)

----------------------------------------------------------------------------
(* Properties of the request payload *)

PayloadKeys == {"params", "body", "data"}

\* The dict d without the keys in `keys`.
Without(d, keys) == D(SelectSeq(d[2], LAMBDA pair : pair[1] \notin keys))

\* The method of a webhook as the transport is asked for it.
MethodOf(webhook) == Upper(GetOr(webhook, "method", S("POST"))[2])

\* The payload key the documentation selects: params, else body, else data.
SelectedKey(webhook) ==
    IF HasKey(webhook, "params") THEN "params"
    ELSE IF HasKey(webhook, "body") THEN "body"
    ELSE IF HasKey(webhook, "data") THEN "data"
    ELSE "none"

\* The webhook of request n of the invocation.
Called(n) == Webhooks[calls[n].webhook]

\* C22: the payload of a POST, PUT or PATCH request is the one the webhook
\* would send if it had the selected key alone (params, else body, else
\* data), and no payload when it has none of them; a GET or DELETE request
\* has no payload.
C22_PayloadPriority ==
    \A n \in 1..Len(calls) :
        IF MethodOf(Called(n)) \in {"POST", "PUT", "PATCH"}
        THEN calls[n].data =
                 RequestData(Without(Called(n), PayloadKeys \ {SelectedKey(Called(n))}),
                             context).data
        ELSE calls[n].data = None

\* C22: a PUT webhook with params, body and data was sent with the payload
\* of params.
C22_Witness ==
    /\ Len(calls) = 1
    /\ PayloadKeys \subseteq {Keys(Called(1))[n] : n \in 1..Len(Keys(Called(1)))}
    /\ MethodOf(Called(1)) = "PUT"
    /\ calls[1].data = S("{\"q\": \"cats\"}")

\* The payload as the documentation describes it: a string is expanded as one
\* template, a map value by value and then serialized.
ExpandedPayload(payload) ==
    IF IsStr(payload) THEN S(simple_template_expand(payload[2], context))
    ELSE S(JsonDumps(ExpandValues(payload, context)))

\* A POST, PUT or PATCH webhook with a payload key is at hand.
PayloadCase(n) ==
    /\ n \in 1..Len(Webhooks)
    /\ MethodOf(Webhooks[n]) \in {"POST", "PUT", "PATCH"}
    /\ SelectedKey(Webhooks[n]) # "none"

\* C23: once a POST, PUT or PATCH webhook with a payload key was processed,
\* its request was sent, with the selected payload expanded against the
\* context: a string as one template, a map value by value.
C23_PayloadExpanded ==
    (pc \notin {"start", "webhooks"} /\ PayloadCase(1)) =>
        /\ Len(calls) >= 1
        /\ calls[1].data = ExpandedPayload(Get(Webhooks[1], SelectedKey(Webhooks[1])))

----------------------------------------------------------------------------
(* Two invocations of execute_datamap_function, interleaved *)

\* Every name the function binds is a local of one activation; the two
\* activations share nothing but the transport, which answers each request
\* of each invocation as the script says.
ConcurrentConfigs ==
    {Datamap(<<"absent">>, <<"present", <<SearchWebhook, PostWebhook>>>>,
             <<"present", S("F:${q} ${response.v} ${array[0]} ${result}")>>),
     Datamap(<<"present", <<Rule("cats", S("E1 ${q}"))>>>>, <<"present", <<PlainWebhook>>>>,
             <<"absent">>),
     Datamap(<<"absent">>, <<"present", <<TitlesWebhook, SearchWebhook>>>>, <<"absent">>)}

ConcurrentArguments ==
    {D(<< <<"q", S("cats")>> >>),
     D(<< <<"q", S("dogs")>>, <<"response", D(<< <<"v", S("mine")>> >>)>> >>)}

Answers ==
    {Json(200, D(<< <<"v", S("ok")>>, <<"items", Items>>, <<"data", L(<<I(1), S("x")>>)>> >>)),
     Json(500, D(<< <<"v", S("err")>>, <<"items", Items>> >>))}

Scripts == {<<first, second>> : first \in Answers, second \in Answers}

\* The locals of an activation.
Frame ==
    [datamap_config |-> datamap_config, args |-> args, pc |-> pc, context |-> context,
     i |-> i, response |-> response, webhook_failed |-> webhook_failed,
     response_data |-> response_data, webhook_context |-> webhook_context,
     calls |-> calls, attempts |-> attempts, result |-> result, exception |-> exception]

\* The locals of an activation at its entry.
EntryFrame(config, arguments) ==
    [datamap_config |-> config, args |-> arguments, pc |-> "start", context |-> None,
     i |-> 0, response |-> NoResponse, webhook_failed |-> FALSE,
     response_data |-> None, webhook_context |-> None,
     calls |-> <<>>, attempts |-> <<>>, result |-> None, exception |-> ""]

ConcurrentInit ==
    /\ EntryState(ConcurrentConfigs, ConcurrentArguments)
    /\ running = 1
    /\ parked \in {<<EntryFrame(config, arguments)>> :
                      config \in ConcurrentConfigs, arguments \in ConcurrentArguments}
    /\ script \in [1..2 -> Scripts]

\* A variant of Switch in which the two activations have one context.
Switch_one_context ==
    /\ parked # <<>>
    /\ running' = 3 - running
    /\ parked' = <<Frame>>
    /\ datamap_config' = parked[1].datamap_config
    /\ args' = parked[1].args
    /\ pc' = parked[1].pc
    /\ context' = context
    /\ i' = parked[1].i
    /\ response' = parked[1].response
    /\ webhook_failed' = parked[1].webhook_failed
    /\ response_data' = parked[1].response_data
    /\ webhook_context' = parked[1].webhook_context
    /\ calls' = parked[1].calls
    /\ attempts' = parked[1].attempts
    /\ result' = parked[1].result
    /\ exception' = parked[1].exception
    /\ UNCHANGED <<script, expander_vars>>

\* The other invocation runs from here on: its locals are the ones at hand,
\* and the locals of this one are kept as they are.
Switch ==
    /\ parked # <<>>
    /\ running' = 3 - running
    /\ parked' = <<Frame>>
    /\ datamap_config' = parked[1].datamap_config
    /\ args' = parked[1].args
    /\ pc' = parked[1].pc
    /\ context' = parked[1].context
    /\ i' = parked[1].i
    /\ response' = parked[1].response
    /\ webhook_failed' = parked[1].webhook_failed
    /\ response_data' = parked[1].response_data
    /\ webhook_context' = parked[1].webhook_context
    /\ calls' = parked[1].calls
    /\ attempts' = parked[1].attempts
    /\ result' = parked[1].result
    /\ exception' = parked[1].exception
    /\ UNCHANGED <<script, expander_vars>>

\* The transport answers the request of webhook i as the script of the
\* running invocation says.
Scripted == (pc = "webhooks" /\ response' # NoResponse) => response' = script[running][i]

\* One step of the running invocation.
Step == Next /\ Scripted

ConcurrentNext == Step \/ Switch

ConcurrentSpec == ConcurrentInit /\ [][ConcurrentNext]_vars

\* The function from webhook n on when nothing else runs: the statements of
\* the loop body and of the fallback stage, one after the other.
RECURSIVE AloneFrom(_, _, _, _)
AloneFrom(n, datamap, ctx, answers) ==
    LET webhooks == IF HasKey(datamap, "webhooks") THEN Get(datamap, "webhooks")[2] ELSE <<>>
        webhook == webhooks[n]
        req == PrepareRequest(webhook, ctx)
        outcome == TryWebhook(webhook, req, answers[n])
        each == Foreach(webhook, outcome.response_data,
                        MergeResponse(ctx, outcome.response_data))
    IN IF n > Len(webhooks)
       THEN [pc |-> "returned", exception |-> "",
             result |-> IF HasKey(datamap, "output")
                        THEN FallbackResult(Get(datamap, "output"), ctx)
                        ELSE GenericErrorResult]
       ELSE IF req.raised
       THEN [pc |-> "raised", exception |-> "AttributeError", result |-> None]
       ELSE IF outcome.webhook_failed
       THEN AloneFrom(n + 1, datamap, ContextAfterFailure(ctx, outcome.response_data), answers)
       ELSE IF each.raised
       THEN [pc |-> "raised", exception |-> "TypeError", result |-> None]
       ELSE [pc |-> "returned", exception |-> "",
             result |-> WebhookResult(webhook, outcome.response_data, each.context)]

\* execute_datamap_function(config, arguments) run alone, the transport
\* answering the request of webhook n with answers[n].
Alone(config, arguments, answers) ==
    LET datamap == ActualDatamap(config)
        rules == IF HasKey(datamap, "expressions") THEN Get(datamap, "expressions")[2]
                 ELSE <<>>
        match == FirstMatch(rules, arguments, 1)
    IN IF match # 0
       THEN [pc |-> "returned", exception |-> "",
             result |-> ExpressionResult(rules[match], InitialContext(arguments))]
       ELSE AloneFrom(1, datamap, InitialContext(arguments), answers)

\* How an activation ended.
Outcome(frame) == [pc |-> frame.pc, exception |-> frame.exception, result |-> frame.result]

Finished(frame) == frame.pc \in {"returned", "raised"}

\* C24: whatever the interleaving of the steps of two invocations, each of
\* them ends as it ends when it runs alone with its config, its arguments and
\* the answers the transport gave it.
C24_Independent ==
    /\ Finished(Frame) => Outcome(Frame) = Alone(datamap_config, args, script[running])
    /\ (parked # <<>> /\ Finished(parked[1])) =>
           Outcome(parked[1]) = Alone(parked[1].datamap_config, parked[1].args, script[3 - running])

\* C24: the second invocation has returned after two requests while the
\* first, called with other arguments and answered otherwise, is between
\* its second request and what follows it.
C24_Witness ==
    /\ running = 2 /\ pc = "returned" /\ Len(calls) = 2
    /\ parked[1].pc = "classified" /\ Len(parked[1].calls) = 2
    /\ parked[1].args # args /\ script[1] # script[2]

----------------------------------------------------------------------------
(* Properties of a configuration with nothing to try *)

\* No rule of the configuration matches the stringified arguments.
NoRuleMatches == \A n \in 1..Len(Expressions) : ~RuleMatches(n)

\* C25: without expressions the function goes on to the webhooks stage; and
\* without webhooks (the key absent or the list empty), when no rule matched,
\* no webhook is tried and no request is sent: the function returns the
\* DataMap-level output rendered against the arguments or, without one, the
\* generic error.
C25_NothingToTry ==
    /\ (pc # "start" /\ ~HasKey(actual_datamap, "expressions")) => i >= 1
    /\ (pc # "start" /\ Len(Webhooks) = 0 /\ NoRuleMatches) =>
          /\ pc \in {"webhooks", "returned"}
          /\ calls = <<>> /\ attempts = <<>>
          /\ pc = "returned" =>
                IF HasKey(actual_datamap, "output")
                THEN RendersAs(result, Get(actual_datamap, "output"), ArgsContext)
                ELSE /\ IsDict(result)
                     /\ result[2] =
                           << <<"error", S("All webhooks failed and no fallback output defined")>>,
                              <<"status", S("failed")>> >>

\* C25: the rules of the configuration do not match, its webhooks list is
\* empty, and its output, a map, is returned.
C25_Witness ==
    /\ pc = "returned"
    /\ Len(Expressions) >= 1 /\ NoRuleMatches
    /\ HasWebhooks /\ Len(Webhooks) = 0
    /\ HasKey(actual_datamap, "output") /\ IsDict(result)
    /\ Get(result, "response") = S("F dogs <MISSING:summary>")

----------------------------------------------------------------------------
(* Properties of the result of an expression rule *)

\* A rule matched, and the function returned the output of the first one.
RuleReturned == pc = "returned" /\ \E n \in 1..Len(Expressions) : RuleMatches(n)

\* C26: the result of the first matching rule is the rendering of its output
\* against the arguments: for a map output a map with the same keys and the
\* expansions of its values, for a string output the string of its expansion.
C26_RuleOutputShape ==
    RuleReturned => RendersAs(result, Get(Expressions[FirstMatching], "output"), ArgsContext)

----------------------------------------------------------------------------
(* Properties of the context of the append template *)

\* The value `this` stands for while the append template is expanded.
Element(item) == IF IsDict(item) THEN item ELSE D(<< <<"value", item>> >>)

\* The append expansions of items n.., each against a context that holds
\* `this` and nothing else, joined.
RECURSIVE JoinAgainstThis(_, _, _)
JoinAgainstThis(items, append_template, n) ==
    IF n > Len(items) THEN ""
    ELSE simple_template_expand(append_template, D(<< <<"this", Element(items[n])>> >>))
         \o JoinAgainstThis(items, append_template, n + 1)

\* The foreach of the successful webhook ran over a list with elements.
ForeachRan == ForeachOverList /\ InputList # <<>>

\* The append template was expanded against `this` alone.
AppendSeesOnlyThis ==
    ForeachRan =>
        /\ HasKey(webhook_context, OutputKey)
        /\ Get(webhook_context, OutputKey) =
              S(JoinAgainstThis(SlicePrefix(InputList, MaxItems), AppendTemplate, 1))

\* C27 as stated: the append template is expanded against a context that
\* holds only `this`, and `this` is not in the context the webhook output is
\* rendered against afterwards.
C27_ThisIsTransient ==
    /\ AppendSeesOnlyThis
    /\ ForeachRan => ~HasKey(webhook_context, "this")

\* C27: the append template is expanded against a context that holds only
\* `this`; in the context the webhook output is rendered against afterwards
\* `this` is never the element: it is present only when the output key of
\* the foreach is "this", as the joined string, or else when the arguments
\* have a key "this", as their value.
C27_ThisIsNeverTheElement ==
    /\ AppendSeesOnlyThis
    /\ (ForeachRan /\ HasKey(webhook_context, "this")) =>
          IF OutputKey = "this"
          THEN Get(webhook_context, "this") =
                  S(JoinAgainstThis(SlicePrefix(InputList, MaxItems), AppendTemplate, 1))
          ELSE HasKey(args, "this") /\ Get(webhook_context, "this") = Get(args, "this")
    /\ (ForeachRan /\ OutputKey # "this" /\ ~HasKey(args, "this")) =>
          ~HasKey(webhook_context, "this")

\* C27: the append template referred to the element and to the arguments,
\* and the output to this: the arguments are missing in the first, this in
\* the second.
C27_Witness ==
    /\ ForeachRan /\ OutputKey = "summary" /\ ~HasKey(args, "this")
    /\ Get(webhook_context, "summary") = S("A<MISSING:q>;B<MISSING:q>;")
    /\ result = S("O:<MISSING:this.t>|A<MISSING:q>;B<MISSING:q>;")

----------------------------------------------------------------------------
(* Properties of the context built from the arguments *)

\* Key n of the arguments.
ArgumentKey(n) == args[2][n][1]

\* ${k} and ${args.k} expand to the same string in the context at hand.
ExpandAlike(k) ==
    simple_template_expand(Placeholder("$", k), context)
        = simple_template_expand(Placeholder("$", "args." \o k), context)

\* C28 as stated: once the context is built, for every key k of the
\* arguments ${k} and ${args.k} expand to the same string in it.
C28_KeysExpandAlike ==
    pc # "start" => \A n \in 1..Len(args[2]) : ExpandAlike(ArgumentKey(n))

----------------------------------------------------------------------------
(* Properties of a tool built with the DataMap builder *)

\* The output the builder serialized, and the pattern of its rule n.
BuiltOutput == Get(actual_datamap, "output")
BuiltPattern(n) == Get(Expressions[n], "string")[2]

\* C29 as stated: for a tool built with a webhook and an output, when the
\* webhook call succeeds the function returns the builder's output rendered
\* against the context that holds the webhook's response.
C29_BuiltOutputRendered ==
    (Succeeded /\ Len(Expressions) = 0 /\ HasKey(actual_datamap, "output")) =>
        RendersAs(result, BuiltOutput, webhook_context)

\* C30 as stated: when the pattern of a rule the builder added is a substring
\* of the stringified arguments, the function returns without a webhook
\* tried and without a request, and not with the generic error.
C30_BuiltRuleFires ==
    (pc # "start" /\ \E n \in 1..Len(Expressions) :
                        Contains(PyStr(args), BuiltPattern(n))) =>
        /\ pc = "returned"
        /\ calls = <<>> /\ attempts = <<>>
        /\ ~(IsDict(result) /\ HasKey(result, "error"))

====
